---- MODULE Spec2Model ----
(***************************************************************************)
(* QueueSync: a Coordinator (src/src/coordinator.py) that accepts client   *)
(* connections, registers each one in request_queue from a short-lived     *)
(* thread and processes the queue from one processing thread, and the      *)
(* Worker client (src/src/worker.py).                                      *)
(*                                                                         *)
(* A connection is identified with the Worker that opened it (each Worker  *)
(* runs one start() session); Workers are numbered in the order in which   *)
(* they call start().  A bytes value is the record                         *)
(* [owner, off, len]: bytes off .. off+len-1 of a payload of Worker        *)
(* `owner` (an owner above NumWorkers marks bytes made by the Handler for  *)
(* a connection); b'' is the single value Empty.                           *)
(***************************************************************************)
EXTENDS Naturals, Sequences, FiniteSets

\* ---- bounds of the model ----
NumWorkers == 2
MaxFaults == 1
MaxQueries == 2

\* ---- program constants ----
RecvBufSize == 1024
WorkerRecvBufSize == 1024

\* ---- constructor arguments ----
\* Coordinator(host, port, max_num_of_clients)
max_num_of_clients == 1

Workers == 1..NumWorkers

VARIABLES
    coordPc,        \* position of Coordinator.start(): init, accept, bindfailed, crashed
    accepted,       \* connection accepted for which no thread could be started (0: none)
    backlog,        \* connections completed by the kernel, waiting for accept()
    regs,           \* connections whose queue_client_request thread has not yet put
    request_queue,  \* Coordinator.request_queue
    procs,          \* the threads running process_requests: [pc, conn, data, resp, sent, exc]
    handler,        \* the handle_request of the Coordinator subclass: echo or long
    c2s,            \* per connection: bytes written by the Worker, unread by the Coordinator
    s2c,            \* per connection: bytes written by the Coordinator, unread by the Worker
    rst,            \* connections reset by the Coordinator's end (it closed with request
                    \* bytes unread, or bytes arrived after it closed)
    srvCloses,      \* per connection: number of client_socket.close() calls of the Coordinator
    doneCount,      \* per connection: number of task_done() calls for its queue entry
    wpc,            \* position of Worker.start(): init, run, recv (inside query_coordinator), done
    client_socket,  \* Worker.client_socket: "None" or "sock"
    wconn,          \* state of the Worker's socket object: none, open, connected, closed
    wcloses,        \* per Worker: number of close() calls on its socket
    wexc,           \* per Worker: exception in flight in start(): none, socket, other
    wraised,        \* per Worker: start() ended by raising to its caller
    ranWorker,      \* per Worker: run_worker() was called
    connFailed,     \* history: Workers whose connect raised a socket error
    nqueries,       \* number of query_coordinator calls made by all Workers
    wdata,          \* per Worker: argument of the latest query_coordinator call
    wret,           \* per Worker: return value of the latest query_coordinator call
    wcalls,         \* per Worker: number of query_coordinator calls of its session
    wanswers,       \* per Worker: how many of them returned a non-empty value
    qerr,           \* Workers whose latest query_coordinator call met a socket error
    enqOrder,       \* history: connections in the order request_queue.put took them
    handledOrder,   \* history: connections in the order handle_request was invoked
    failed,         \* history: connections whose processing raised
    acceptErrors,   \* history: number of errors raised in the accept loop
    faults          \* number of injected failures (raised exceptions, short sends) so far

vars == <<coordPc, accepted, backlog, regs, request_queue, procs, handler, c2s, s2c, rst,
          srvCloses, doneCount, wpc, client_socket, wconn, wcloses, wexc,
          wraised, ranWorker, connFailed, nqueries, wdata, wret, wcalls,
          wanswers, qerr, enqOrder,
          handledOrder, failed, acceptErrors, faults>>

coordVars == <<coordPc, accepted, backlog, regs, request_queue, enqOrder, acceptErrors, handler>>
procVars == <<procs, srvCloses, doneCount, handledOrder, failed>>
workerVars == <<wpc, client_socket, wconn, wcloses, wexc, wraised, ranWorker, connFailed,
                nqueries, wdata, wret, wcalls, wanswers, qerr>>

\* ---- bytes values ----
Empty == [owner |-> 0, off |-> 0, len |-> 0]

Bytes(o, f, n) == IF n = 0 THEN Empty ELSE [owner |-> o, off |-> f, len |-> n]

Min(a, b) == IF a <= b THEN a ELSE b

\* socket.recv(bufsize) on buffered bytes `buf`: at most bufsize of them, from the front
SockRecv(buf, bufsize) == Bytes(buf.owner, buf.off, Min(buf.len, bufsize))

\* what stays buffered after SockRecv
SockRest(buf, bufsize) ==
    Bytes(buf.owner, buf.off + Min(buf.len, bufsize), buf.len - Min(buf.len, bufsize))

\* bytes `data` written behind buffered bytes `buf` of the same connection
SockAppend(buf, data) ==
    IF buf.len = 0 THEN data
    ELSE IF data.len = 0 THEN buf
    ELSE [owner |-> buf.owner, off |-> buf.off, len |-> buf.len + data.len]

\* socket.send(data) returns the number of bytes it sent: all of a message of at
\* most SendWholeLen bytes (the bounded message of the protocol, sent on a fresh
\* connection), all or only the first SendWholeLen bytes of a longer one
SendWholeLen == RecvBufSize

SockSendCounts(n) == IF n <= SendWholeLen THEN {n} ELSE {SendWholeLen, n}

\* the first k bytes of data
Prefix(data, k) == Bytes(data.owner, data.off, Min(data.len, k))

\* ---- the Handlers ----
\* the Handler of the round-trip scenario: handle_request returns received_data
EchoHandler(conn, received_data) == received_data

\* a Handler whose response is one byte longer than what a Worker's recv takes
LongHandler(conn, received_data) == Bytes(NumWorkers + conn, 0, WorkerRecvBufSize + 1)

Handlers == {"echo", "long"}

\* self.handle_request(client_socket, client_address, received_data)
handle_request(conn, received_data) ==
    IF handler = "echo" THEN EchoHandler(conn, received_data)
    ELSE LongHandler(conn, received_data)

\* the payload lengths the Workers pass to query_coordinator: the shortest and the
\* longest payload of at most one recv chunk with the echo Handler; a payload one
\* byte longer than the chunk with the long Handler, which does not look at it
PayloadLens ==
    IF handler = "echo" THEN {0, RecvBufSize} ELSE {RecvBufSize + 1}

\* ---- the queue ----
\* a put at the head (a LIFO queue), for comparison
QueuePutFront(q, item) == <<item>> \o q

\* queue.Queue.put appends at the tail
QueuePut(q, item) == Append(q, item)

\* a queue.Queue(maxsize=1), whose put blocks while an entry waits, for comparison
QueueHasRoomForOne(q) == Len(q) < 1

\* queue.Queue() has no maximum size: put never blocks
QueueHasRoom(q) == TRUE

\* a get that takes the newest entry, for comparison
QueueGetNewest(q) == q[Len(q)]

\* queue.Queue.get takes the head
QueueGetItem(q) == Head(q)

\* a get that leaves the entry in the queue, for comparison
QueueGetKeeps(q) == q

\* queue.Queue.get removes the entry it returns
QueueGetRest(q) == Tail(q)

\* ---- state after construction ----
NewProcessor ==
    [pc |-> "get", conn |-> 0, data |-> Empty, resp |-> Empty, sent |-> Empty, exc |-> FALSE]

\* two processing threads on one queue, for comparison
SpawnedProcessorsTwo == <<NewProcessor, NewProcessor>>

\* start() creates one thread running process_requests
SpawnedProcessors == <<NewProcessor>>

Init ==
    /\ coordPc = "init"
    /\ accepted = 0
    /\ backlog = <<>>
    /\ regs = {}
    /\ request_queue = <<>>
    /\ procs = <<>>
    /\ handler \in Handlers
    /\ c2s = [c \in Workers |-> Empty]
    /\ s2c = [c \in Workers |-> Empty]
    /\ rst = {}
    /\ srvCloses = [c \in Workers |-> 0]
    /\ doneCount = [c \in Workers |-> 0]
    /\ wpc = [w \in Workers |-> "init"]
    /\ client_socket = [w \in Workers |-> "None"]
    /\ wconn = [w \in Workers |-> "none"]
    /\ wcloses = [w \in Workers |-> 0]
    /\ wexc = [w \in Workers |-> "none"]
    /\ wraised = [w \in Workers |-> FALSE]
    /\ ranWorker = [w \in Workers |-> FALSE]
    /\ connFailed = {}
    /\ nqueries = 0
    /\ wdata = [w \in Workers |-> Empty]
    /\ wret = [w \in Workers |-> Empty]
    /\ wcalls = [w \in Workers |-> 0]
    /\ wanswers = [w \in Workers |-> 0]
    /\ qerr = {}
    /\ enqOrder = <<>>
    /\ handledOrder = <<>>
    /\ failed = {}
    /\ acceptErrors = 0
    /\ faults = 0

Listening == coordPc = "accept"

\* ---- Coordinator.start ----
\* bind and listen succeed; the processing thread is started; the accept loop begins
Start ==
    /\ coordPc = "init"
    /\ coordPc' = "accept"
    /\ procs' = SpawnedProcessors
    /\ UNCHANGED <<accepted, backlog, regs, request_queue, enqOrder, acceptErrors, handler>>
    /\ UNCHANGED <<srvCloses, doneCount, handledOrder, failed>>
    /\ UNCHANGED <<c2s, s2c, rst, faults>>
    /\ UNCHANGED workerVars

\* a start() that starts the processing thread before it binds, for comparison
StartBindFailAfterThread ==
    /\ coordPc = "init"
    /\ coordPc' = "bindfailed"
    /\ procs' = SpawnedProcessors
    /\ UNCHANGED <<accepted, backlog, regs, request_queue, enqOrder, acceptErrors, handler>>
    /\ UNCHANGED <<srvCloses, doneCount, handledOrder, failed>>
    /\ UNCHANGED <<c2s, s2c, rst, faults>>
    /\ UNCHANGED workerVars

\* bind or listen raises: start() raises before the thread is started
StartBindFail ==
    /\ coordPc = "init"
    /\ coordPc' = "bindfailed"
    /\ UNCHANGED <<accepted, backlog, regs, request_queue, enqOrder, acceptErrors, handler>>
    /\ UNCHANGED procVars
    /\ UNCHANGED <<c2s, s2c, rst, faults>>
    /\ UNCHANGED workerVars

\* one pass of the accept loop: server_socket.accept() returns the oldest completed
\* connection and a thread running queue_client_request is started for it
Accept ==
    /\ coordPc = "accept"
    /\ backlog # <<>>
    /\ regs' = regs \cup {Head(backlog)}
    /\ backlog' = Tail(backlog)
    /\ UNCHANGED <<coordPc, accepted, request_queue, enqOrder, acceptErrors, handler>>
    /\ UNCHANGED procVars
    /\ UNCHANGED <<c2s, s2c, rst, faults>>
    /\ UNCHANGED workerVars

\* server_socket.accept() raises: nothing in the loop catches it, start() raises
AcceptFail ==
    /\ coordPc = "accept"
    /\ faults < MaxFaults
    /\ faults' = faults + 1
    /\ acceptErrors' = acceptErrors + 1
    /\ coordPc' = "crashed"
    /\ UNCHANGED <<accepted, backlog, regs, request_queue, enqOrder, handler>>
    /\ UNCHANGED procVars
    /\ UNCHANGED <<c2s, s2c, rst>>
    /\ UNCHANGED workerVars

\* accept() returns a connection but Thread.start() raises (no thread can be
\* created): start() raises, holding the accepted connection
SpawnFail ==
    /\ coordPc = "accept"
    /\ backlog # <<>>
    /\ faults < MaxFaults
    /\ faults' = faults + 1
    /\ acceptErrors' = acceptErrors + 1
    /\ accepted' = Head(backlog)
    /\ backlog' = Tail(backlog)
    /\ coordPc' = "crashed"
    /\ UNCHANGED <<regs, request_queue, enqOrder, handler>>
    /\ UNCHANGED procVars
    /\ UNCHANGED <<c2s, s2c, rst>>
    /\ UNCHANGED workerVars

\* ---- Coordinator.queue_client_request ----
QueueClientRequest(c) ==
    /\ c \in regs
    /\ QueueHasRoom(request_queue)
    /\ request_queue' = QueuePut(request_queue, c)
    /\ enqOrder' = Append(enqOrder, c)
    /\ regs' = regs \ {c}
    /\ UNCHANGED <<coordPc, accepted, backlog, acceptErrors, handler>>
    /\ UNCHANGED procVars
    /\ UNCHANGED <<c2s, s2c, rst, faults>>
    /\ UNCHANGED workerVars

\* ---- Coordinator.process_requests, run by thread p ----
Conn(p) == procs[p].conn

\* client_socket, client_address = self.request_queue.get()
ProcGet(p) ==
    /\ procs[p].pc = "get"
    /\ request_queue # <<>>
    /\ procs' = [procs EXCEPT ![p].pc = "recv", ![p].conn = QueueGetItem(request_queue)]
    /\ request_queue' = QueueGetRest(request_queue)
    /\ UNCHANGED <<coordPc, accepted, backlog, regs, enqOrder, acceptErrors, handler>>
    /\ UNCHANGED <<srvCloses, doneCount, handledOrder, failed>>
    /\ UNCHANGED <<c2s, s2c, rst, faults>>
    /\ UNCHANGED workerVars

\* recv(1024) returns (buffered bytes, or b'' once the client has closed) and
\* handle_request is invoked with them
ProcRecv(p) ==
    /\ procs[p].pc = "recv"
    /\ c2s[Conn(p)].len > 0 \/ wconn[Conn(p)] = "closed"
    /\ procs' = [procs EXCEPT ![p].pc = "handle",
                              ![p].data = SockRecv(c2s[Conn(p)], RecvBufSize)]
    /\ c2s' = [c2s EXCEPT ![Conn(p)] = SockRest(c2s[Conn(p)], RecvBufSize)]
    /\ handledOrder' = Append(handledOrder, Conn(p))
    /\ UNCHANGED coordVars
    /\ UNCHANGED <<srvCloses, doneCount, failed>>
    /\ UNCHANGED <<s2c, rst, faults>>
    /\ UNCHANGED workerVars

\* recv(1024) raises: control goes to the finally block with the exception pending
ProcRecvFail(p) ==
    /\ procs[p].pc = "recv"
    /\ faults < MaxFaults
    /\ faults' = faults + 1
    /\ procs' = [procs EXCEPT ![p].pc = "finally", ![p].exc = TRUE]
    /\ failed' = failed \cup {Conn(p)}
    /\ UNCHANGED coordVars
    /\ UNCHANGED <<srvCloses, doneCount, handledOrder>>
    /\ UNCHANGED <<c2s, s2c, rst>>
    /\ UNCHANGED workerVars

\* a response sent on the socket of the latest registration, for comparison
SendTargetLastEnqueued(p) == enqOrder[Len(enqOrder)]

\* the socket the response is sent on: the client_socket taken from the queue entry
SendTarget(p) == Conn(p)

\* handle_request has returned the response and client_socket.send(response)
\* takes k bytes of it; the value send returns is not looked at
SendResponse(p, k) ==
    /\ procs[p].pc = "handle"
    /\ procs' = [procs EXCEPT ![p].pc = "finally",
                              ![p].resp = handle_request(Conn(p), procs[p].data),
                              ![p].sent = Prefix(handle_request(Conn(p), procs[p].data), k)]
    /\ s2c' = [s2c EXCEPT ![SendTarget(p)] =
                   SockAppend(@, Prefix(handle_request(Conn(p), procs[p].data), k))]
    /\ UNCHANGED coordVars
    /\ UNCHANGED <<srvCloses, doneCount, handledOrder, failed>>
    /\ UNCHANGED <<c2s, rst>>
    /\ UNCHANGED workerVars

\* handle_request returns the response and send writes all of it
ProcHandleReturn(p) ==
    /\ SendResponse(p, handle_request(Conn(p), procs[p].data).len)
    /\ UNCHANGED faults

\* handle_request returns the response and send, cut short, writes only a part
ProcSendShort(p) ==
    /\ faults < MaxFaults
    /\ faults' = faults + 1
    /\ \E k \in SockSendCounts(handle_request(Conn(p), procs[p].data).len) :
           /\ k < handle_request(Conn(p), procs[p].data).len
           /\ SendResponse(p, k)

\* handle_request raises
ProcHandleRaise(p) ==
    /\ procs[p].pc = "handle"
    /\ faults < MaxFaults
    /\ faults' = faults + 1
    /\ procs' = [procs EXCEPT ![p].pc = "finally", ![p].exc = TRUE]
    /\ failed' = failed \cup {Conn(p)}
    /\ UNCHANGED coordVars
    /\ UNCHANGED <<srvCloses, doneCount, handledOrder>>
    /\ UNCHANGED <<c2s, s2c, rst>>
    /\ UNCHANGED workerVars

\* handle_request returns the response and client_socket.send(response) raises
ProcSendFail(p) ==
    /\ procs[p].pc = "handle"
    /\ faults < MaxFaults
    /\ faults' = faults + 1
    /\ procs' = [procs EXCEPT ![p].pc = "finally", ![p].exc = TRUE]
    /\ failed' = failed \cup {Conn(p)}
    /\ UNCHANGED coordVars
    /\ UNCHANGED <<srvCloses, doneCount, handledOrder>>
    /\ UNCHANGED <<c2s, s2c, rst>>
    /\ UNCHANGED workerVars

\* where the thread goes after the finally block: the try has no except clause,
\* so a pending exception leaves the while loop and ends the thread
AfterFinally(exc) == IF exc THEN "dead" ELSE "get"

\* a close that is skipped when an exception is pending, for comparison
ClosesOnSuccessOnly(exc) == ~exc

\* the close stands in the finally block: it runs with or without an exception
ClosesInFinally(exc) == TRUE

\* finally: client_socket.close(); self.request_queue.task_done()
\* (close discards the request bytes left unread and, if there are any, resets
\* the connection)
ProcFinally(p) ==
    /\ procs[p].pc = "finally"
    /\ srvCloses' = [srvCloses EXCEPT ![Conn(p)] =
                         IF ClosesInFinally(procs[p].exc) THEN @ + 1 ELSE @]
    /\ doneCount' = [doneCount EXCEPT ![Conn(p)] = @ + 1]
    /\ procs' = [procs EXCEPT ![p] = [NewProcessor EXCEPT !.pc = AfterFinally(procs[p].exc)]]
    /\ c2s' = [c2s EXCEPT ![Conn(p)] = IF ClosesInFinally(procs[p].exc) THEN Empty ELSE @]
    /\ rst' = IF /\ ClosesInFinally(procs[p].exc)
                 /\ c2s[Conn(p)].len > 0
                 /\ wconn[Conn(p)] # "closed"
              THEN rst \cup {Conn(p)}
              ELSE rst
    /\ UNCHANGED coordVars
    /\ UNCHANGED <<handledOrder, failed>>
    /\ UNCHANGED <<s2c, faults>>
    /\ UNCHANGED workerVars

\* ---- Worker.start ----
\* a start() without the except clause, for comparison
ExceptCatchesNone(kind) == FALSE

\* except socket.error: which exceptions the clause catches
ExceptCatches(kind) == kind = "socket"

\* a close that is skipped when an exception is pending, for comparison
FinallyClosesOnSuccess(sock, exc) == sock = "sock" /\ exc = "none"

\* finally: if self.client_socket: close it and reset it to None
FinallyCloses(sock, exc) == sock = "sock"

\* Workers are numbered in the order of their start() calls: w is the next to call
StartsNext(w) == wpc[w] = "init" /\ \A v \in Workers : v < w => wpc[v] # "init"

\* the except clause and the finally block of start(), entered with client_socket
\* set to `sock` and exception `exc` pending (none, socket, other)
ExitStart(w, sock, exc) ==
    /\ wexc' = [wexc EXCEPT ![w] = exc]
    /\ wraised' = [wraised EXCEPT ![w] = exc # "none" /\ ~ExceptCatches(exc)]
    /\ IF FinallyCloses(sock, exc)
       THEN /\ wcloses' = [wcloses EXCEPT ![w] = @ + 1]
            /\ wconn' = [wconn EXCEPT ![w] = "closed"]
            /\ client_socket' = [client_socket EXCEPT ![w] = "None"]
       ELSE /\ client_socket' = [client_socket EXCEPT ![w] = sock]
            /\ wconn' = [wconn EXCEPT ![w] = IF sock = "sock" /\ @ = "none" THEN "open" ELSE @]
            /\ UNCHANGED wcloses
    /\ wpc' = [wpc EXCEPT ![w] = "done"]
    /\ wdata' = [wdata EXCEPT ![w] = Empty]
    /\ wret' = [wret EXCEPT ![w] = Empty]
    /\ wcalls' = [wcalls EXCEPT ![w] = 0]
    /\ wanswers' = [wanswers EXCEPT ![w] = 0]
    /\ s2c' = [s2c EXCEPT ![w] = IF FinallyCloses(sock, exc) THEN Empty ELSE @]
    /\ c2s' = [c2s EXCEPT ![w] =
                   IF FinallyCloses(sock, exc) /\ srvCloses[w] > 0 THEN Empty ELSE @]
    /\ rst' = IF FinallyCloses(sock, exc) THEN rst \ {w} ELSE rst

\* socket.socket() raises a socket error: client_socket stays None
WorkerSocketFail(w) ==
    /\ StartsNext(w)
    /\ faults < MaxFaults
    /\ faults' = faults + 1
    /\ ExitStart(w, "None", "socket")
    /\ UNCHANGED <<ranWorker, connFailed, nqueries, qerr>>
    /\ UNCHANGED coordVars
    /\ UNCHANGED procVars

\* the socket is created, connect succeeds (the Coordinator listens and its
\* listen(max_num_of_clients) backlog has room) and run_worker is called
WorkerConnect(w) ==
    /\ StartsNext(w)
    /\ Listening
    /\ Len(backlog) < max_num_of_clients
    /\ backlog' = Append(backlog, w)
    /\ client_socket' = [client_socket EXCEPT ![w] = "sock"]
    /\ wconn' = [wconn EXCEPT ![w] = "connected"]
    /\ ranWorker' = [ranWorker EXCEPT ![w] = TRUE]
    /\ wpc' = [wpc EXCEPT ![w] = "run"]
    /\ UNCHANGED <<wcloses, wexc, wraised, connFailed, nqueries, wdata, wret, wcalls,
                   wanswers, qerr>>
    /\ UNCHANGED <<coordPc, accepted, regs, request_queue, enqOrder, acceptErrors, handler>>
    /\ UNCHANGED procVars
    /\ UNCHANGED <<c2s, s2c, rst, faults>>

\* the socket is created and connect raises a socket error (the Coordinator is
\* unreachable)
WorkerConnectFail(w) ==
    /\ StartsNext(w)
    /\ ~Listening
    /\ ExitStart(w, "sock", "socket")
    /\ connFailed' = connFailed \cup {w}
    /\ UNCHANGED <<ranWorker, nqueries, qerr>>
    /\ UNCHANGED coordVars
    /\ UNCHANGED procVars
    /\ UNCHANGED faults

\* run_worker returns
RunWorkerReturn(w) ==
    /\ wpc[w] = "run"
    /\ ExitStart(w, client_socket[w], "none")
    /\ qerr' = qerr \ {w}
    /\ UNCHANGED <<ranWorker, connFailed, nqueries>>
    /\ UNCHANGED coordVars
    /\ UNCHANGED procVars
    /\ UNCHANGED faults

\* run_worker raises a socket error or any other exception
RunWorkerRaise(w, kind) ==
    /\ wpc[w] = "run"
    /\ faults < MaxFaults
    /\ faults' = faults + 1
    /\ ExitStart(w, client_socket[w], kind)
    /\ qerr' = qerr \ {w}
    /\ UNCHANGED <<ranWorker, connFailed, nqueries>>
    /\ UNCHANGED coordVars
    /\ UNCHANGED procVars

\* ---- Worker.query_coordinator, called from run_worker ----
\* a query_coordinator without the except clause, for comparison
QueryCatchesNone(kind) == FALSE

\* except socket.error as e: ... return b''
QueryCatches(kind) == kind = "socket"

\* self.client_socket.send(data) succeeds (bytes sent after the Coordinator has
\* closed are not kept by its end: they reset the connection)
QuerySend(w, n) ==
    /\ wpc[w] = "run"
    /\ nqueries < MaxQueries
    /\ nqueries' = nqueries + 1
    /\ wdata' = [wdata EXCEPT ![w] = Bytes(w, 0, n)]
    /\ wcalls' = [wcalls EXCEPT ![w] = @ + 1]
    /\ c2s' = [c2s EXCEPT ![w] =
                   IF srvCloses[w] > 0 THEN @ ELSE SockAppend(@, Bytes(w, 0, n))]
    /\ rst' = IF srvCloses[w] > 0 /\ n > 0 THEN rst \cup {w} ELSE rst
    /\ wpc' = [wpc EXCEPT ![w] = "recv"]
    /\ qerr' = qerr \ {w}
    /\ UNCHANGED <<client_socket, wconn, wcloses, wexc, wraised, ranWorker, connFailed, wret,
                   wanswers>>
    /\ UNCHANGED coordVars
    /\ UNCHANGED procVars
    /\ UNCHANGED <<s2c, faults>>

\* send raises a socket error (the Coordinator has closed the connection): the
\* except clause returns b''; an error it did not catch would leave run_worker
\* and reach the except clause and the finally block of start()
QuerySendFail(w, n) ==
    /\ wpc[w] = "run"
    /\ nqueries < MaxQueries
    /\ srvCloses[w] > 0
    /\ nqueries' = nqueries + 1
    /\ qerr' = qerr \cup {w}
    /\ IF QueryCatches("socket")
       THEN /\ wdata' = [wdata EXCEPT ![w] = Bytes(w, 0, n)]
            /\ wret' = [wret EXCEPT ![w] = Empty]
            /\ wcalls' = [wcalls EXCEPT ![w] = @ + 1]
            /\ UNCHANGED <<wpc, client_socket, wconn, wcloses, wexc, wraised, wanswers>>
            /\ UNCHANGED <<c2s, s2c, rst>>
       ELSE ExitStart(w, client_socket[w], "socket")
    /\ UNCHANGED <<ranWorker, connFailed>>
    /\ UNCHANGED coordVars
    /\ UNCHANGED procVars
    /\ UNCHANGED faults

\* recv(1024) returns buffered response bytes
QueryRecv(w) ==
    /\ wpc[w] = "recv"
    /\ s2c[w].len > 0
    /\ wret' = [wret EXCEPT ![w] = SockRecv(s2c[w], WorkerRecvBufSize)]
    /\ s2c' = [s2c EXCEPT ![w] = SockRest(s2c[w], WorkerRecvBufSize)]
    /\ wanswers' = [wanswers EXCEPT ![w] = @ + 1]
    /\ wpc' = [wpc EXCEPT ![w] = "run"]
    /\ UNCHANGED <<client_socket, wconn, wcloses, wexc, wraised, ranWorker, connFailed,
                   nqueries, wdata, wcalls, qerr>>
    /\ UNCHANGED coordVars
    /\ UNCHANGED procVars
    /\ UNCHANGED <<c2s, rst, faults>>

\* the Coordinator has closed without a reset and nothing is buffered: recv
\* returns b''
QueryRecvEof(w) ==
    /\ wpc[w] = "recv"
    /\ s2c[w].len = 0
    /\ srvCloses[w] > 0
    /\ w \notin rst
    /\ wret' = [wret EXCEPT ![w] = Empty]
    /\ wpc' = [wpc EXCEPT ![w] = "run"]
    /\ UNCHANGED <<client_socket, wconn, wcloses, wexc, wraised, ranWorker, connFailed,
                   nqueries, wdata, wcalls, wanswers, qerr>>
    /\ UNCHANGED coordVars
    /\ UNCHANGED procVars
    /\ UNCHANGED <<c2s, s2c, rst, faults>>

\* the connection has been reset: recv raises a socket error, response bytes still
\* buffered are lost and the except clause returns b''
QueryRecvReset(w) ==
    /\ wpc[w] = "recv"
    /\ w \in rst
    /\ qerr' = qerr \cup {w}
    /\ IF QueryCatches("socket")
       THEN /\ wret' = [wret EXCEPT ![w] = Empty]
            /\ s2c' = [s2c EXCEPT ![w] = Empty]
            /\ wpc' = [wpc EXCEPT ![w] = "run"]
            /\ UNCHANGED <<client_socket, wconn, wcloses, wexc, wraised, wdata, wcalls,
                           wanswers>>
            /\ UNCHANGED <<c2s, rst>>
       ELSE ExitStart(w, client_socket[w], "socket")
    /\ UNCHANGED <<ranWorker, connFailed, nqueries>>
    /\ UNCHANGED coordVars
    /\ UNCHANGED procVars
    /\ UNCHANGED faults

\* ---- the system ----
Next ==
    \/ Start
    \/ StartBindFail
    \/ Accept
    \/ AcceptFail
    \/ SpawnFail
    \/ \E c \in Workers : QueueClientRequest(c)
    \/ \E p \in DOMAIN procs : ProcGet(p)
    \/ \E p \in DOMAIN procs : ProcRecv(p)
    \/ \E p \in DOMAIN procs : ProcRecvFail(p)
    \/ \E p \in DOMAIN procs : ProcHandleReturn(p)
    \/ \E p \in DOMAIN procs : ProcSendShort(p)
    \/ \E p \in DOMAIN procs : ProcHandleRaise(p)
    \/ \E p \in DOMAIN procs : ProcSendFail(p)
    \/ \E p \in DOMAIN procs : ProcFinally(p)
    \/ \E w \in Workers : WorkerSocketFail(w)
    \/ \E w \in Workers : WorkerConnect(w)
    \/ \E w \in Workers : WorkerConnectFail(w)
    \/ \E w \in Workers : RunWorkerReturn(w)
    \/ \E w \in Workers, kind \in {"socket", "other"} : RunWorkerRaise(w, kind)
    \/ \E w \in Workers, n \in PayloadLens : QuerySend(w, n)
    \/ \E w \in Workers, n \in PayloadLens : QuerySendFail(w, n)
    \/ \E w \in Workers : QueryRecv(w)
    \/ \E w \in Workers : QueryRecvEof(w)
    \/ \E w \in Workers : QueryRecvReset(w)

Spec == Init /\ [][Next]_vars

\* ---- definitions used by the properties ----
Range(seq) == {seq[i] : i \in DOMAIN seq}

\* position of x in seq (x occurs in seq)
Pos(seq, x) == CHOOSE i \in DOMAIN seq : seq[i] = x

\* number of handle_request invocations for connection c
HandleCount(c) == Cardinality({i \in DOMAIN handledOrder : handledOrder[i] = c})

Enqueued == Range(enqOrder)

\* no thread will take anything more from the queue: every processing thread has
\* ended, or every one waits in get() on an empty queue
ProcessingOver ==
    /\ procs # <<>>
    /\ \/ \A p \in DOMAIN procs : procs[p].pc = "dead"
       \/ /\ request_queue = <<>>
          /\ regs = {}
          /\ \A p \in DOMAIN procs : procs[p].pc \in {"get", "dead"}

\* Worker w is inside query_coordinator, blocked in recv, while the processing
\* thread is blocked in recv on the same connection, nothing is in flight either
\* way and neither side has closed
QueryHung(w) ==
    /\ wpc[w] = "recv"
    /\ c2s[w].len = 0
    /\ s2c[w].len = 0
    /\ srvCloses[w] = 0
    /\ \E p \in DOMAIN procs : procs[p].pc = "recv" /\ Conn(p) = w

\* the latest query_coordinator call of w has returned, it was the first call of
\* w's session, and no step of the Coordinator failed for that connection
CleanQueryReturned(w) ==
    /\ wpc[w] = "run"
    /\ w \notin failed
    /\ wcalls[w] = 1

\* ---- C1 ----
\* C1: requests are handled in enqueue order: handle_request is invoked only for
\* enqueued connections, and whenever it has been invoked for two connections, it
\* was invoked first for the one that request_queue.put took first.
C1_HandledInEnqueueOrder ==
    /\ Range(handledOrder) \subseteq Enqueued
    /\ \A i, j \in DOMAIN handledOrder :
           i < j => Pos(enqOrder, handledOrder[i]) < Pos(enqOrder, handledOrder[j])

\* two requests were enqueued in the order opposite to their connection order and
\* both have been handled
C1_Witness ==
    /\ enqOrder = <<2, 1>>
    /\ Len(handledOrder) = 2

\* ---- C2 ----
\* C2: the Handler is invoked exactly once per enqueued request: never twice for a
\* request, and once processing is over every enqueued request has had its
\* invocation.
C2_HandledExactlyOnce ==
    /\ \A c \in Workers : HandleCount(c) <= 1
    /\ ProcessingOver => \A c \in Enqueued : HandleCount(c) = 1

\* ---- C3 ----
\* C3: at most one execution context is inside handle_request, and at most one
\* thread drains the request queue.
C3_HandlerMutualExclusion ==
    /\ Len(procs) <= 1
    /\ Cardinality({p \in DOMAIN procs : procs[p].pc = "handle"}) <= 1

\* the processing thread is inside handle_request while another request waits in
\* the queue
C3_Witness ==
    /\ \E p \in DOMAIN procs : procs[p].pc = "handle"
    /\ request_queue # <<>>

\* ---- C4 ----
\* C4: every enqueued connection is closed exactly once and its queue entry is
\* marked done exactly once: never twice, and once processing is over no enqueued
\* connection is left open or unmarked.
C4_ClosedAndDoneExactlyOnce ==
    /\ \A c \in Workers : srvCloses[c] <= 1 /\ doneCount[c] <= 1
    /\ ProcessingOver => \A c \in Enqueued : srvCloses[c] = 1 /\ doneCount[c] = 1

\* ---- C5 ----
\* C5: a failure while processing one request does not end the processing loop:
\* the processing thread never terminates.
C5_ProcessingLoopSurvives ==
    \A p \in DOMAIN procs : procs[p].pc # "dead"

\* ---- C6 ----
\* C6: an error raised by accept (or by starting the registration thread) does not
\* end the accept loop: after such an error the Coordinator is still accepting.
C6_AcceptLoopSurvives ==
    acceptErrors > 0 => coordPc = "accept"

\* ---- C7 ----
\* C7: with the echo Handler, a query_coordinator call with a payload of 0 to 1024
\* bytes on a fresh connection that meets no failure returns exactly the payload:
\* what it returns equals the payload, and it is never stuck with the Coordinator
\* waiting for the request while the Worker waits for the response.
C7_RoundTrip ==
    handler = "echo" =>
        \A w \in Workers :
            /\ (CleanQueryReturned(w) /\ wdata[w].len <= RecvBufSize) => wret[w] = wdata[w]
            /\ ~(QueryHung(w) /\ wdata[w].len <= RecvBufSize)

\* ---- C8 ----
\* C8: with the echo Handler and concurrent Workers, the bytes written to a
\* connection and the bytes a Worker receives are bytes of that Worker's own
\* request, and a Worker whose non-empty payload of at most 1024 bytes was answered
\* without a failure has received exactly that payload.
C8_OwnPayloadBack ==
    handler = "echo" =>
        \A w \in Workers :
            /\ s2c[w].owner \in {0, w}
            /\ wret[w].owner \in {0, w}
            /\ (CleanQueryReturned(w) /\ wdata[w].len > 0 /\ wdata[w].len <= RecvBufSize)
                   => wret[w] = wdata[w]

\* two Workers have queried concurrently and each holds a non-empty response
C8_Witness ==
    /\ handler = "echo"
    /\ \A w \in {1, 2} : wpc[w] = "run" /\ wret[w].len > 0 /\ wdata[w].len > 0
    /\ \E i \in DOMAIN handledOrder : handledOrder[i] = 1

\* ---- C9 ----
\* C9: a Worker whose connect failed with a socket error has finished start()
\* without raising, has not called run_worker, and holds no open socket: the socket
\* was closed once and client_socket is None.
C9_UnreachableCoordinator ==
    \A w \in connFailed :
        /\ wpc[w] = "done"
        /\ ~wraised[w]
        /\ ~ranWorker[w]
        /\ client_socket[w] = "None"
        /\ wconn[w] = "closed"
        /\ wcloses[w] = 1

\* a Worker's connect has failed
C9_Witness ==
    \E w \in Workers : w \in connFailed /\ wexc[w] = "socket"

\* ---- C10 ----
\* C10: after start() has exited on any path, the Worker is Disconnected:
\* client_socket is None, its socket (if one was created) is closed, and close was
\* called exactly once on it; close is never called twice.
C10_DisconnectedOnExit ==
    \A w \in Workers :
        /\ wcloses[w] <= 1
        /\ wpc[w] = "done" =>
               /\ client_socket[w] = "None"
               /\ wconn[w] \in {"none", "closed"}
               /\ (wconn[w] = "closed") <=> (wcloses[w] = 1)
               /\ ranWorker[w] => wcloses[w] = 1

\* start() has exited by raising an exception of run_worker that is no socket error
C10_Witness ==
    \E w \in Workers : wpc[w] = "done" /\ wexc[w] = "other" /\ wraised[w] /\ wcloses[w] = 1

\* ---- definitions used by C11 .. C20 ----
\* connection c has been taken from the listen backlog by accept()
Accepted(c) == ranWorker[c] /\ c \notin Range(backlog)

\* the number of execution contexts and structures of the Coordinator that hold
\* connection c: the accept loop, a registration thread, the queue, a processor
OwnerCount(c) ==
    (IF accepted = c THEN 1 ELSE 0)
    + (IF c \in regs THEN 1 ELSE 0)
    + Cardinality({i \in DOMAIN request_queue : request_queue[i] = c})
    + Cardinality({p \in DOMAIN procs : Conn(p) = c})

\* the connections the Coordinator has accepted and not yet closed
OpenConns == {c \in Workers : Accepted(c) /\ srvCloses[c] = 0 /\ OwnerCount(c) > 0}

\* ---- C11 ----
\* C11: query_coordinator never propagates a socket error: a Worker whose latest
\* call met a socket error in send or recv is back in run_worker with b'' as the
\* value of the call, start() has not been left, and its connection state is
\* untouched: client_socket is still set and the socket is connected and unclosed.
C11_SocketErrorGivesEmpty ==
    \A w \in qerr :
        /\ wpc[w] = "run"
        /\ wret[w] = Empty
        /\ ~wraised[w]
        /\ client_socket[w] = "sock"
        /\ wconn[w] = "connected"
        /\ wcloses[w] = 0

\* a call has met a socket error after the Coordinator closed the connection
C11_Witness ==
    \E w \in qerr : srvCloses[w] = 1 /\ wcalls[w] > 0

\* ---- C12 ----
\* C12: the number of client connections accepted and not yet closed (being
\* registered, waiting in request_queue or being processed) never exceeds
\* max_num_of_clients.
C12_AtMostMaxClients ==
    Cardinality(OpenConns) <= max_num_of_clients

\* ---- C13 ----
\* C13: once bind or listen has failed, start() has raised with no processing
\* thread started, no connection accepted or enqueued, an empty request queue and
\* no Handler invocation, and no Worker has connected.
C13_BindFailureIsFatal ==
    coordPc = "bindfailed" =>
        /\ procs = <<>>
        /\ backlog = <<>>
        /\ accepted = 0
        /\ regs = {}
        /\ request_queue = <<>>
        /\ enqOrder = <<>>
        /\ handledOrder = <<>>
        /\ \A w \in Workers : ~ranWorker[w]

\* bind has failed and a Worker has tried to connect
C13_Witness ==
    coordPc = "bindfailed" /\ connFailed # {}

\* ---- C14 ----
\* C14: for every request whose Handler returned, the bytes written to the
\* connection are the whole response, and the connection is not closed before the
\* write.
C14_WholeResponseWritten ==
    \A p \in DOMAIN procs :
        /\ procs[p].pc = "handle" => srvCloses[Conn(p)] = 0
        /\ (procs[p].pc = "finally" /\ ~procs[p].exc) =>
               /\ procs[p].sent = procs[p].resp
               /\ srvCloses[Conn(p)] = 0

\* ---- C15 ----
\* C15: a client connection is never held by two execution contexts: it is held by
\* at most one of the accept loop, its registration thread, the request queue and
\* the processor, by exactly one of them from accept until the Coordinator closes
\* it, and it moves between them only in that order: the accept loop and the
\* registration thread hold it before its put, the queue after its put and before
\* any read, the processor after its put and before the close, nobody afterwards.
C15_SingleOwner ==
    \A c \in Workers :
        /\ OwnerCount(c) <= 1
        /\ (Accepted(c) /\ srvCloses[c] = 0) => OwnerCount(c) = 1
        /\ (accepted = c \/ c \in regs) => c \notin Enqueued
        /\ c \in Range(request_queue) =>
               c \in Enqueued /\ HandleCount(c) = 0 /\ srvCloses[c] = 0
        /\ (\E p \in DOMAIN procs : Conn(p) = c) => c \in Enqueued /\ srvCloses[c] = 0
        /\ srvCloses[c] > 0 => OwnerCount(c) = 0

\* one connection is with its registration thread while the processor is about to
\* close another
C15_Witness ==
    /\ regs # {}
    /\ \E p \in DOMAIN procs : procs[p].pc = "finally"

\* ---- C16 ----
\* C16: the accept loop never waits for the queue or for the processor: whenever a
\* connection is pending, accept and the spawn of its registration thread can take
\* their step, and every registration thread can put its entry, whatever the queue
\* holds and whatever the processor is doing.
C16_AcceptLoopNeverBlocks ==
    /\ (coordPc = "accept" /\ backlog # <<>>) => ENABLED Accept
    /\ \A c \in regs : ENABLED QueueClientRequest(c)

\* a connection is pending while the processor is blocked in recv on another
\* connection whose Worker has sent nothing
C16_Witness ==
    /\ coordPc = "accept"
    /\ backlog # <<>>
    /\ \E p \in DOMAIN procs :
           /\ procs[p].pc = "recv"
           /\ c2s[Conn(p)].len = 0
           /\ wconn[Conn(p)] = "connected"

\* ---- C17 ----
\* C17: handling order is FIFO relative to enqueue order only.  Connections are
\* accepted in the order of their numbers, and the k-th Handler invocation is for a
\* connection enqueued before the one of every later invocation; the accept order
\* does not bind the handling order.
C17_FifoByEnqueueOnly ==
    /\ \A a, b \in Workers : (a < b /\ Accepted(b) /\ ranWorker[a]) => Accepted(a)
    /\ \A i, j \in DOMAIN handledOrder :
           (i <= j) <=> (Pos(enqOrder, handledOrder[i]) <= Pos(enqOrder, handledOrder[j]))

\* connection a was accepted before connection b, b was enqueued first and the
\* Handler was invoked for b before a
C17_Witness ==
    \E a, b \in Range(handledOrder) :
        /\ a < b
        /\ Pos(enqOrder, b) < Pos(enqOrder, a)
        /\ Pos(handledOrder, b) < Pos(handledOrder, a)

\* ---- C18 ----
\* C18: within one start() session at most one query_coordinator call returns
\* response bytes; every other call of the session returns b''.
C18_OneResponsePerSession ==
    \A w \in Workers : wanswers[w] <= 1

\* ---- C19 ----
\* C19: when the read, the Handler or the write has failed for a connection, no
\* response bytes are written to it, no query_coordinator call on it obtains
\* bytes, a returned call has returned b'', and a Worker blocked in recv is not
\* left hanging: the processor is about to close the connection or has closed it.
C19_FailureIsEmptiness ==
    \A w \in failed :
        /\ s2c[w] = Empty
        /\ wanswers[w] = 0
        /\ (wpc[w] = "run" /\ wcalls[w] > 0) => wret[w] = Empty
        /\ wpc[w] = "recv" =>
               \/ \E p \in DOMAIN procs : procs[p].pc = "finally" /\ Conn(p) = w
               \/ srvCloses[w] > 0

\* the Handler has failed on a Worker's non-empty request and the Worker's call
\* has returned b''
C19_Witness ==
    \E w \in failed :
        /\ \E i \in DOMAIN handledOrder : handledOrder[i] = w
        /\ wpc[w] = "run"
        /\ wcalls[w] = 1
        /\ wdata[w].len > 0
        /\ wret[w] = Empty

\* ---- C20 ----
\* C20: no reachable state is a deadlock in which the processor waits to read from
\* a Worker that is itself waiting in query_coordinator for the response.
C20_NoReadReadDeadlock ==
    \A w \in Workers : ~QueryHung(w)

====
